---- MODULE Spec2Model ----
(***************************************************************************)
(* Model of the low-level multiplication engine of ramp (ll::mul):         *)
(* the single-limb kernels mul_1 / addmul_1 / submul_1, the schoolbook     *)
(* mul_basecase, the Toom-22 and unbalanced multipliers, the squaring      *)
(* path and the dispatchers mul / mul_rec / sqr / sqr_rec.                 *)
(*                                                                         *)
(* Memory is a sequence of regions (one per allocation), a pointer is a    *)
(* region and an offset, and every function of the source is an operator   *)
(* that takes the machine state and returns the machine state after the    *)
(* call (and the returned limb).                                           *)
(***************************************************************************)
EXTENDS Integers, Sequences, FiniteSets, TLC

VARIABLES pc, op, X, Y, vl, W, st, ret, frame

vars == <<pc, op, X, Y, vl, W, st, ret, frame>>

----------------------------------------------------------------------------
(* Bounds of the model *)

\* width of a limb in bits (the program uses 32 or 64)
LimbBits == 2
\* longest operand handed to the single-limb kernels
MaxKernelLen == 2
\* longest operand handed to mul_basecase directly
MaxBaseLen == 3

(* Program constants *)

TOOM22_THRESHOLD == 20

----------------------------------------------------------------------------
(* Limbs *)

B == 2^LimbBits

Limb == 0..(B - 1)

\* limb values the inputs are drawn from: the smallest and the largest ones
EdgeLimbs == {0, 1, B - 2, B - 1}

\* Limb::mul_hilo: the double-width product as (high, low)
mul_hilo(a, b) ==
    [hi |-> (a * b) \div B, lo |-> (a * b) % B]

\* Limb::add_overflow: the wrapped sum and the carry
add_overflow(a, b) ==
    [v |-> (a + b) % B, c |-> IF a + b >= B THEN 1 ELSE 0]

\* Limb::sub_overflow: the wrapped difference and the borrow
sub_overflow(a, b) ==
    [v |-> (a - b) % B, c |-> IF a < b THEN 1 ELSE 0]

\* Limb + Limb, one machine word wide
limb_add(a, b) ==
    (a + b) % B

\* Limb - Limb, one machine word wide
limb_sub(a, b) ==
    (a - b) % B

\* value({p,n}): the natural number a limb sequence stands for
RECURSIVE value(_)
value(s) ==
    IF s = <<>> THEN 0 ELSE Head(s) + B * value(Tail(s))

\* the limbs of value(x) * value(y), Len(x) + Len(y) of them, by column sums
\* (the reference the multipliers are compared with)
RECURSIVE ColumnSum(_, _, _, _)
ColumnSum(x, y, k, i) ==
    IF i > Len(x) THEN 0
    ELSE (IF k + 1 - i >= 1 /\ k + 1 - i <= Len(y) THEN x[i] * y[k + 1 - i] ELSE 0)
         + ColumnSum(x, y, k, i + 1)

RECURSIVE ProductFrom(_, _, _, _)
ProductFrom(x, y, k, c) ==
    IF k > Len(x) + Len(y) THEN <<>>
    ELSE LET t == ColumnSum(x, y, k, 1) + c
         IN  <<t % B>> \o ProductFrom(x, y, k + 1, t \div B)

Product(x, y) ==
    ProductFrom(x, y, 1, 0)

\* all limb sequences of length n over the limb set S
SeqsOf(S, n) ==
    [1..n -> S]

----------------------------------------------------------------------------
(* Memory: regions and pointers *)

\* the regions of the buffers the caller passes in
XRegion == 1
YRegion == 2
WRegion == 3

\* Limbs / LimbsMut: a pointer into an allocation
Ptr(r, o) ==
    [r |-> r, o |-> o]

\* Limbs::offset
offset(p, k) ==
    [r |-> p.r, o |-> p.o + k]

\* the debug bounds a Limbs / LimbsMut carries
InBounds(s, p) ==
    /\ p.r >= 1
    /\ p.r <= Len(s.mem)
    /\ p.o >= 0
    /\ p.o < Len(s.mem[p.r])

\* a failed debug assertion or an access outside an allocation
Fault(s) ==
    [s EXCEPT !.ok = FALSE]

\* the access check of a read *p
Touch(s, p) ==
    IF s.ok /\ ~InBounds(s, p) THEN Fault(s) ELSE s

\* the value read by *p
Load(s, p) ==
    IF s.ok /\ InBounds(s, p) THEN s.mem[p.r][p.o + 1] ELSE 0

\* *p = v
Store(s, p, v) ==
    IF ~s.ok THEN s
    ELSE IF ~InBounds(s, p) THEN Fault(s)
    ELSE [s EXCEPT !.mem[p.r][p.o + 1] = v,
                   !.outw = @ \/ (p.r = WRegion)]

\* the machine state at the call: the caller's buffers, the threshold in
\* force, the limb that fills fresh allocations; cylo and cyhi are the least
\* and the greatest deferred carry mul_toom22 has applied at wp + 3 * nl
Machine(x, y, w, t, g) ==
    [mem |-> <<x, y, w>>, ok |-> TRUE, T |-> t, fill |-> g,
     outw |-> FALSE, late |-> FALSE, cylo |-> 0, cyhi |-> 0]

\* overlap(xp, xs, yp, ys): the slices {xp,xs} and {yp,ys} share a limb
overlap(xp, xs, yp, ys) ==
    /\ xp.r = yp.r
    /\ xp.o + xs > yp.o
    /\ yp.o + ys > xp.o

\* same_or_separate(xp, xs, yp, ys): the slices start at the same limb or
\* share none
same_or_separate(xp, xs, yp, ys) ==
    (xp.r = yp.r /\ xp.o = yp.o) \/ ~overlap(xp, xs, yp, ys)

\* same_or_incr(xp, xs, yp, ys): the output {xp,xs} is identical to the
\* input {yp,ys}, or at a strictly higher address, or shares no limb with it
same_or_incr(xp, xs, yp, ys) ==
    (xp.r = yp.r /\ xp.o >= yp.o) \/ ~overlap(xp, xs, yp, ys)

----------------------------------------------------------------------------
(* Single-limb kernels *)

\* mul_1's loop without the carry of the low-half addition
RECURSIVE mul_1_loop_nocarry(_, _, _, _, _, _)
mul_1_loop_nocarry(s, wp, xp, n, v, cl) ==
    IF ~s.ok THEN [st |-> s, r |-> cl] ELSE
    LET xl == Load(s, xp)
        p == mul_hilo(xl, v)
        a == add_overflow(p.lo, cl)
        s2 == Store(Touch(s, xp), wp, a.v)
    IN  IF n - 1 = 0 THEN [st |-> s2, r |-> p.hi]
        ELSE mul_1_loop_nocarry(s2, offset(wp, 1), offset(xp, 1), n - 1, v, p.hi)

\* mul_1's loop reading *xp a second time, after the store to *wp, for the
\* high half of the product
RECURSIVE mul_1_loop_reread(_, _, _, _, _, _)
mul_1_loop_reread(s, wp, xp, n, v, cl) ==
    IF ~s.ok THEN [st |-> s, r |-> cl] ELSE
    LET s1 == Touch(s, xp)
        a == add_overflow(mul_hilo(Load(s, xp), v).lo, cl)
        s2 == Store(s1, wp, a.v)
        cl2 == limb_add(mul_hilo(Load(s2, xp), v).hi, a.c)
    IN  IF n - 1 = 0 THEN [st |-> s2, r |-> cl2]
        ELSE mul_1_loop_reread(s2, offset(wp, 1), offset(xp, 1), n - 1, v, cl2)

\* the loop of mul_1_generic, cl the carry limb so far
RECURSIVE mul_1_loop(_, _, _, _, _, _)
mul_1_loop(s, wp, xp, n, v, cl) ==
    IF ~s.ok THEN [st |-> s, r |-> cl] ELSE
    LET s1 == Touch(s, xp)
        xl == Load(s, xp)
        p == mul_hilo(xl, v)
        a == add_overflow(p.lo, cl)
        cl2 == limb_add(p.hi, a.c)
        s2 == Store(s1, wp, a.v)
    IN  IF n - 1 = 0 THEN [st |-> s2, r |-> cl2]
        ELSE mul_1_loop(s2, offset(wp, 1), offset(xp, 1), n - 1, v, cl2)

mul_1_generic(s, wp, xp, n, v) ==
    mul_1_loop(s, wp, xp, n, v, 0)

\* ll::mul_1: debug_assert!(n > 0), debug_assert!(same_or_incr(wp, n, xp, n)),
\* then the generic loop
mul_1(s, wp, xp, n, v) ==
    IF n > 0 /\ same_or_incr(wp, n, xp, n) THEN mul_1_generic(s, wp, xp, n, v)
    ELSE [st |-> Fault(s), r |-> 0]

\* addmul_1's loop without the carry of the addition into the buffer
RECURSIVE addmul_1_loop_nocarry(_, _, _, _, _, _)
addmul_1_loop_nocarry(s, wp, xp, n, v, cl) ==
    IF ~s.ok THEN [st |-> s, r |-> cl] ELSE
    LET xl == Load(s, xp)
        p == mul_hilo(xl, v)
        a == add_overflow(p.lo, cl)
        cl2 == limb_add(p.hi, a.c)
        b == add_overflow(Load(s, wp), a.v)
        s2 == Store(Touch(Touch(s, xp), wp), wp, b.v)
    IN  IF n - 1 = 0 THEN [st |-> s2, r |-> cl2]
        ELSE addmul_1_loop_nocarry(s2, offset(wp, 1), offset(xp, 1), n - 1, v, cl2)

\* the loop of addmul_1_generic
RECURSIVE addmul_1_loop(_, _, _, _, _, _)
addmul_1_loop(s, wp, xp, n, v, cl) ==
    IF ~s.ok THEN [st |-> s, r |-> cl] ELSE
    LET s1 == Touch(Touch(s, xp), wp)
        xl == Load(s, xp)
        p == mul_hilo(xl, v)
        a == add_overflow(p.lo, cl)
        cl2 == limb_add(p.hi, a.c)
        b == add_overflow(Load(s, wp), a.v)
        cl3 == limb_add(cl2, b.c)
        s2 == Store(s1, wp, b.v)
    IN  IF n - 1 = 0 THEN [st |-> s2, r |-> cl3]
        ELSE addmul_1_loop(s2, offset(wp, 1), offset(xp, 1), n - 1, v, cl3)

addmul_1_generic(s, wp, xp, n, v) ==
    IF n > 0 /\ same_or_separate(wp, n, xp, n) THEN addmul_1_loop(s, wp, xp, n, v, 0)
    ELSE [st |-> Fault(s), r |-> 0]

\* ll::addmul_1
addmul_1(s, wp, xp, n, v) ==
    addmul_1_generic(s, wp, xp, n, v)

\* submul_1's loop without the borrow of the subtraction from the buffer
RECURSIVE submul_1_loop_noborrow(_, _, _, _, _, _)
submul_1_loop_noborrow(s, wp, xp, n, v, cl) ==
    IF ~s.ok THEN [st |-> s, r |-> cl] ELSE
    LET xl == Load(s, xp)
        p == mul_hilo(xl, v)
        a == add_overflow(p.lo, cl)
        cl2 == limb_add(p.hi, a.c)
        b == sub_overflow(Load(s, wp), a.v)
        s2 == Store(Touch(Touch(s, xp), wp), wp, b.v)
    IN  IF n - 1 = 0 THEN [st |-> s2, r |-> cl2]
        ELSE submul_1_loop_noborrow(s2, offset(wp, 1), offset(xp, 1), n - 1, v, cl2)

\* the loop of submul_1_generic
RECURSIVE submul_1_loop(_, _, _, _, _, _)
submul_1_loop(s, wp, xp, n, v, cl) ==
    IF ~s.ok THEN [st |-> s, r |-> cl] ELSE
    LET s1 == Touch(Touch(s, xp), wp)
        xl == Load(s, xp)
        p == mul_hilo(xl, v)
        a == add_overflow(p.lo, cl)
        cl2 == limb_add(p.hi, a.c)
        b == sub_overflow(Load(s, wp), a.v)
        cl3 == limb_add(cl2, b.c)
        s2 == Store(s1, wp, b.v)
    IN  IF n - 1 = 0 THEN [st |-> s2, r |-> cl3]
        ELSE submul_1_loop(s2, offset(wp, 1), offset(xp, 1), n - 1, v, cl3)

submul_1_generic(s, wp, xp, n, v) ==
    IF n > 0 /\ same_or_separate(wp, n, xp, n) THEN submul_1_loop(s, wp, xp, n, v, 0)
    ELSE [st |-> Fault(s), r |-> 0]

\* ll::submul_1
submul_1(s, wp, xp, n, v) ==
    submul_1_generic(s, wp, xp, n, v)

----------------------------------------------------------------------------
(* The multi-limb primitives the multiplier consumes (ll::add_n, sub_n,    *)
(* add, sub, cmp, is_zero, zero, incr, copy_incr) and the scratch arena    *)

\* add_n(rp, ap, bp, n): {rp,n} = low n limbs of {ap,n} + {bp,n}, ascending;
\* returns the carry
RECURSIVE add_n_loop(_, _, _, _, _, _, _)
add_n_loop(s, rp, ap, bp, n, i, c) ==
    IF i >= n \/ ~s.ok THEN [st |-> s, r |-> c]
    ELSE LET s1 == Touch(Touch(s, offset(ap, i)), offset(bp, i))
             t == Load(s, offset(ap, i)) + Load(s, offset(bp, i)) + c
             s2 == Store(s1, offset(rp, i), t % B)
         IN  add_n_loop(s2, rp, ap, bp, n, i + 1, t \div B)

add_n(s, rp, ap, bp, n) ==
    add_n_loop(s, rp, ap, bp, n, 0, 0)

\* sub_n(rp, ap, bp, n): {rp,n} = low n limbs of {ap,n} - {bp,n}; returns
\* the borrow
RECURSIVE sub_n_loop(_, _, _, _, _, _, _)
sub_n_loop(s, rp, ap, bp, n, i, c) ==
    IF i >= n \/ ~s.ok THEN [st |-> s, r |-> c]
    ELSE LET s1 == Touch(Touch(s, offset(ap, i)), offset(bp, i))
             t == Load(s, offset(ap, i)) - Load(s, offset(bp, i)) - c
             s2 == Store(s1, offset(rp, i), t % B)
         IN  sub_n_loop(s2, rp, ap, bp, n, i + 1, IF t < 0 THEN 1 ELSE 0)

sub_n(s, rp, ap, bp, n) ==
    sub_n_loop(s, rp, ap, bp, n, 0, 0)

\* the carry (d = 1) or borrow (d = -1) run through limbs i..n-1 of {ap,n}
RECURSIVE carry_loop(_, _, _, _, _, _, _)
carry_loop(s, rp, ap, n, i, c, d) ==
    IF i >= n \/ ~s.ok THEN [st |-> s, r |-> c]
    ELSE LET s1 == Touch(s, offset(ap, i))
             t == Load(s, offset(ap, i)) + d * c
             s2 == Store(s1, offset(rp, i), t % B)
         IN  carry_loop(s2, rp, ap, n, i + 1,
                        IF t < 0 \/ t >= B THEN 1 ELSE 0, d)

\* add(rp, ap, an, bp, bn), an >= bn: a bn-limb addition, then the carry
\* through the remaining an - bn limbs
add(s, rp, ap, an, bp, bn) ==
    LET low == add_n(s, rp, ap, bp, bn)
    IN  carry_loop(low.st, rp, ap, an, bn, low.r, 1)

\* sub(rp, ap, an, bp, bn), an >= bn: symmetric
sub(s, rp, ap, an, bp, bn) ==
    LET low == sub_n(s, rp, ap, bp, bn)
    IN  carry_loop(low.st, rp, ap, an, bn, low.r, -1)

\* cmp(ap, bp, n): compares from the most significant limb down
RECURSIVE cmp_loop(_, _, _, _)
cmp_loop(s, ap, bp, i) ==
    IF i < 0 \/ ~s.ok THEN [st |-> s, r |-> "Equal"]
    ELSE LET s1 == Touch(Touch(s, offset(ap, i)), offset(bp, i))
             a == Load(s, offset(ap, i))
             b == Load(s, offset(bp, i))
         IN  IF a < b THEN [st |-> s1, r |-> "Less"]
             ELSE IF a > b THEN [st |-> s1, r |-> "Greater"]
             ELSE cmp_loop(s1, ap, bp, i - 1)

cmp(s, ap, bp, n) ==
    cmp_loop(s, ap, bp, n - 1)

\* is_zero(p, n)
RECURSIVE is_zero_loop(_, _, _, _)
is_zero_loop(s, p, n, i) ==
    IF i >= n \/ ~s.ok THEN [st |-> s, r |-> TRUE]
    ELSE IF Load(s, offset(p, i)) # 0 \/ ~InBounds(s, offset(p, i))
         THEN [st |-> Touch(s, offset(p, i)), r |-> FALSE]
         ELSE is_zero_loop(s, p, n, i + 1)

is_zero(s, p, n) ==
    is_zero_loop(s, p, n, 0)

\* zero(p, n): writes n zero limbs
RECURSIVE zero(_, _, _)
zero(s, p, n) ==
    IF n <= 0 \/ ~s.ok THEN s ELSE zero(Store(s, p, 0), offset(p, 1), n - 1)

\* incr(p, v): adds the limb v at p and carries into the higher limbs, up to
\* the first add that does not overflow
RECURSIVE incr(_, _, _)
incr(s, p, v) ==
    IF ~s.ok THEN s ELSE
    LET s1 == Touch(s, p)
        a == add_overflow(Load(s, p), v)
        s2 == Store(s1, p, a.v)
    IN  IF a.c = 0 \/ ~s2.ok THEN s2 ELSE incr(s2, offset(p, 1), 1)

\* copy_incr(src, dst, n): copies n limbs in ascending order
RECURSIVE copy_incr(_, _, _, _)
copy_incr(s, src, dst, n) ==
    IF n <= 0 \/ ~s.ok THEN s
    ELSE copy_incr(Store(Touch(s, src), dst, Load(s, src)),
                   offset(src, 1), offset(dst, 1), n - 1)

\* TmpAllocator::allocate(n): a fresh region of n limbs of indeterminate
\* contents, the new last region of the memory
allocate(s, n) ==
    IF ~s.ok THEN s
    ELSE [s EXCEPT !.mem = Append(@, [i \in 1..n |-> s.fill]),
                   !.late = @ \/ s.outw]

\* the pointer allocate returned
Allocated(s) ==
    Ptr(Len(s.mem), 0)

\* the drop of a TmpAllocator: its regions, those after the first k, are freed
release(s, k) ==
    [s EXCEPT !.mem = SubSeq(@, 1, k)]

----------------------------------------------------------------------------
(* Base case *)

\* mul_basecase's loop with mul_1 in the place of addmul_1: every row
\* overwrites the rows before it
RECURSIVE mul_basecase_loop_overwrite(_, _, _, _, _, _)
mul_basecase_loop_overwrite(s, wp, xp, xs, yp, ys) ==
    IF ys <= 0 \/ ~s.ok THEN s
    ELSE LET c == mul_1(Touch(s, yp), wp, xp, xs, Load(s, yp))
             s1 == Store(c.st, offset(wp, xs), c.r)
         IN  mul_basecase_loop_overwrite(s1, offset(wp, 1), xp, xs,
                                         offset(yp, 1), ys - 1)

\* the while loop of mul_basecase
RECURSIVE mul_basecase_loop(_, _, _, _, _, _)
mul_basecase_loop(s, wp, xp, xs, yp, ys) ==
    IF ys <= 0 \/ ~s.ok THEN s
    ELSE LET c == addmul_1(Touch(s, yp), wp, xp, xs, Load(s, yp))
             s1 == Store(c.st, offset(wp, xs), c.r)
         IN  mul_basecase_loop(s1, offset(wp, 1), xp, xs, offset(yp, 1), ys - 1)

mul_basecase(s, wp, xp, xs, yp, ys) ==
    IF ~s.ok THEN s ELSE
    LET c == mul_1(Touch(s, yp), wp, xp, xs, Load(s, yp))
        s1 == Store(c.st, offset(wp, xs), c.r)
    IN  mul_basecase_loop(s1, offset(wp, 1), xp, xs, offset(yp, 1), ys - 1)

----------------------------------------------------------------------------
(* Dispatch, Toom-22, the unbalanced multiplier *)

\* mul's choice with the unbalanced test xs >= 2 * ys
mul_select_even(t, xs, ys) ==
    IF ys <= t THEN "mul_basecase"
    ELSE IF xs >= ys * 2 THEN "mul_unbalanced"
    ELSE "mul_toom22"

\* the algorithm mul picks for the sizes (xs, ys) under the threshold t
mul_select(t, xs, ys) ==
    IF ys <= t THEN "mul_basecase"
    ELSE IF xs * 2 >= ys * 3 THEN "mul_unbalanced"
    ELSE "mul_toom22"

\* mul_rec's choice with the unbalanced test xs >= 2 * ys
mul_rec_select_even(t, xs, ys) ==
    IF ys < t THEN "mul_basecase"
    ELSE IF xs >= ys * 2 THEN "mul_unbalanced"
    ELSE "mul_toom22"

\* mul_rec's choice without the base case
mul_rec_select_nobase(t, xs, ys) ==
    IF xs * 2 >= ys * 3 THEN "mul_unbalanced"
    ELSE "mul_toom22"

\* the algorithm mul_rec picks
mul_rec_select(t, xs, ys) ==
    IF ys < t THEN "mul_basecase"
    ELSE IF xs * 2 >= ys * 3 THEN "mul_unbalanced"
    ELSE "mul_toom22"

\* the high part of x taken as the larger half
Xh_ceil(xs) ==
    (xs + 1) \div 2

\* the split of mul_toom22: high limbs of x, low limbs, high limbs of y
Xh(xs) ==
    xs \div 2

Nl(xs) ==
    xs - Xh(xs)

Yh(xs, ys) ==
    ys - Nl(xs)

\* the debug assertions of mul_toom22
toom22_asserts(xs, ys) ==
    /\ xs >= ys /\ xs < ys * 2
    /\ 0 < Xh(xs) /\ Xh(xs) <= Nl(xs)
    /\ 0 < Yh(xs, ys) /\ Yh(xs, ys) <= Xh(xs)

\* the absolute difference that leaves the limbs of {zp, nl} above h as they
\* were when p0 < p1
abs_diff_nozero(s, zp, p0, p1, nl, h) ==
    IF ~s.ok THEN [st |-> s, neg |-> FALSE]
    ELSE IF nl = h
    THEN LET c == cmp(s, p0, p1, nl)
         IN  IF c.r = "Less"
             THEN [st |-> sub_n(c.st, zp, p1, p0, nl).st, neg |-> TRUE]
             ELSE [st |-> sub_n(c.st, zp, p0, p1, nl).st, neg |-> FALSE]
    ELSE LET z == is_zero(s, offset(p0, h), nl - h)
             c == IF z.r THEN cmp(z.st, p0, p1, h) ELSE [st |-> z.st, r |-> "None"]
         IN  IF z.r /\ c.r = "Less"
             THEN [st |-> sub_n(c.st, zp, p1, p0, h).st, neg |-> TRUE]
             ELSE [st |-> sub(c.st, zp, p0, nl, p1, h).st, neg |-> FALSE]

\* "Calculate zx1" / "Calculate zy1": {zp, nl} = |{p0, nl} - {p1, h}| with
\* h <= nl; neg tells that p0 < p1
abs_diff(s, zp, p0, p1, nl, h) ==
    IF ~s.ok THEN [st |-> s, neg |-> FALSE]
    ELSE IF nl = h
    THEN LET c == cmp(s, p0, p1, nl)
         IN  IF c.r = "Less"
             THEN [st |-> sub_n(c.st, zp, p1, p0, nl).st, neg |-> TRUE]
             ELSE [st |-> sub_n(c.st, zp, p0, p1, nl).st, neg |-> FALSE]
    ELSE LET z == is_zero(s, offset(p0, h), nl - h)
             c == IF z.r THEN cmp(z.st, p0, p1, h) ELSE [st |-> z.st, r |-> "None"]
         IN  IF z.r /\ c.r = "Less"
             THEN [st |-> zero(sub_n(c.st, zp, p1, p0, h).st, offset(zp, h), nl - h),
                   neg |-> TRUE]
             ELSE [st |-> sub(c.st, zp, p0, nl, p1, h).st, neg |-> FALSE]

\* mul_toom22 up to "Calculate z1": zx1 in {wp, nl}, zy1 in {wp + nl, nl}
\* and z1_neg
toom22_differences(s, wp, xp, xs, yp, ys) ==
    LET nl == Nl(xs)
        dx == abs_diff(s, wp, xp, offset(xp, nl), nl, Xh(xs))
        dy == abs_diff(dx.st, offset(wp, nl), yp, offset(yp, nl), nl, Yh(xs, ys))
    IN  [st |-> dy.st, neg |-> dx.neg # dy.neg]

RECURSIVE mul_rec(_, _, _, _, _, _, _)
RECURSIVE mul_toom22(_, _, _, _, _, _, _)
RECURSIVE mul_unbalanced(_, _, _, _, _, _, _)

\* a call mul_rec(wp, xp, xs, yp, ys, _) still to be made
Product_of(wp, xp, xs, yp, ys) ==
    [wp |-> wp, xp |-> xp, xs |-> xs, yp |-> yp, ys |-> ys]

\* the mul_rec calls of a Toom step, made in their order on the same scratch
RECURSIVE mul_rec_each(_, _, _)
mul_rec_each(s, calls, scratch) ==
    IF calls = <<>> \/ ~s.ok THEN s
    ELSE LET c == Head(calls)
         IN  mul_rec_each(mul_rec(s, c.wp, c.xp, c.xs, c.yp, c.ys, scratch),
                          Tail(calls), scratch)

\* the record of the deferred carry applied at wp + 3 * nl: cy is the limb
\* cy + add_n(..) or cy - sub_n(..), a sum of at most three carries or the
\* difference of at most two carries and a borrow, so the limb B - 1 of the
\* subtracting branch stands for the integer -1
deferred(s, cy, z1_neg) ==
    LET carry == IF ~z1_neg /\ cy = B - 1 THEN -1 ELSE cy
    IN  [s EXCEPT !.cylo = IF carry < @ THEN carry ELSE @,
                  !.cyhi = IF carry > @ THEN carry ELSE @]

\* the accumulation of mul_toom22 once z0, z1, z2 are in place
toom22_accumulate(s, wp, z1, nl, xh, yh, z1_neg) ==
    IF ~s.ok THEN s ELSE
    LET z0 == wp
        z2 == offset(wp, nl * 2)
        a1 == add_n(s, offset(wp, 2 * nl), z2, offset(z0, nl), nl)
        a2 == add_n(a1.st, offset(wp, nl), z0, z2, nl)
        cy2 == limb_add(a1.r, a2.r)
        a3 == add(a2.st, offset(wp, 2 * nl), z2, nl, offset(z2, nl), yh + xh - nl)
        cy3 == limb_add(a1.r, a3.r)
        a4 == IF z1_neg
              THEN add_n(a3.st, offset(wp, nl), offset(wp, nl), z1, 2 * nl)
              ELSE sub_n(a3.st, offset(wp, nl), offset(wp, nl), z1, 2 * nl)
        cy == IF z1_neg THEN limb_add(cy3, a4.r) ELSE limb_sub(cy3, a4.r)
        s5 == incr(a4.st, offset(wp, nl * 2), cy2)
    IN  deferred(incr(s5, offset(wp, nl * 3), cy), cy, z1_neg)

\* mul_toom22 from "Calculate z1" on: s is the state with zx1 and zy1 in
\* place
toom22_products(s, wp, xp, xs, yp, ys, scratch, z1_neg) ==
    LET xh == Xh(xs)
        nl == Nl(xs)
        yh == Yh(xs, ys)
        x0 == xp
        y0 == yp
        x1 == offset(xp, nl)
        y1 == offset(yp, nl)
        zx1 == wp
        zy1 == offset(wp, nl)
        z0 == wp
        z1 == scratch
        z2 == offset(wp, nl * 2)
        scratch_out == offset(scratch, nl * 2)
    IN  toom22_accumulate(
            mul_rec_each(s, <<Product_of(z1, zx1, nl, zy1, nl),
                               Product_of(z0, x0, nl, y0, nl),
                               Product_of(z2, x1, xh, y1, yh)>>, scratch_out),
            wp, z1, nl, xh, yh, z1_neg)

\* mul_toom22 from "Calculate zy1" on: dx is what "Calculate zx1" left
toom22_zy1(dx, wp, xp, xs, yp, ys, scratch) ==
    LET nl == Nl(xs)
        dy == abs_diff(dx.st, offset(wp, nl), yp, offset(yp, nl), nl, Yh(xs, ys))
    IN  toom22_products(dy.st, wp, xp, xs, yp, ys, scratch, dx.neg # dy.neg)

mul_toom22(s, wp, xp, xs, yp, ys, scratch) ==
    IF ~s.ok THEN s
    ELSE IF ~toom22_asserts(xs, ys) THEN Fault(s)
    ELSE toom22_zy1(abs_diff(s, wp, xp, offset(xp, Nl(xs)), Nl(xs), Xh(xs)),
                    wp, xp, xs, yp, ys, scratch)

\* the call of the algorithm a dispatcher selected
multiply_by(alg, s, wp, xp, xs, yp, ys, scratch) ==
    CASE alg = "mul_basecase" -> mul_basecase(s, wp, xp, xs, yp, ys)
      [] alg = "mul_unbalanced" -> mul_unbalanced(s, wp, xp, xs, yp, ys, scratch)
      [] OTHER -> mul_toom22(s, wp, xp, xs, yp, ys, scratch)

mul_rec(s, wp, xp, xs, yp, ys, scratch) ==
    IF ~s.ok THEN s
    ELSE multiply_by(mul_rec_select(s.T, xs, ys), s, wp, xp, xs, yp, ys, scratch)

\* "add the block product in w_tmp": add_n, copy_incr, incr
unbalanced_add(s, wp, w_tmp, ys, n) ==
    IF ~s.ok THEN s ELSE
    LET a == add_n(s, wp, wp, w_tmp, ys)
        s1 == copy_incr(a.st, offset(w_tmp, ys), offset(wp, ys), n)
    IN  incr(s1, offset(wp, ys), a.r)

\* the while loop of mul_unbalanced; returns the state and the advanced
\* wp, xp, xs
RECURSIVE unbalanced_loop(_, _, _, _, _, _, _, _)
unbalanced_loop(s, wp, xp, xs, yp, ys, scratch, w_tmp) ==
    IF s.ok /\ xs >= ys * 2
    THEN LET s1 == mul_toom22(s, w_tmp, xp, ys, yp, ys, scratch)
             s2 == unbalanced_add(s1, wp, w_tmp, ys, ys)
         IN  unbalanced_loop(s2, offset(wp, ys), offset(xp, ys), xs - ys,
                             yp, ys, scratch, w_tmp)
    ELSE [st |-> s, wp |-> wp, xp |-> xp, xs |-> xs]

\* the last block of mul_unbalanced: l is what the while loop left (the
\* state and the advanced wp, xp, xs)
unbalanced_tail(l, yp, ys, scratch, w_tmp) ==
    LET c == IF l.xs >= ys
             THEN Product_of(w_tmp, l.xp, l.xs, yp, ys)
             ELSE Product_of(w_tmp, yp, ys, l.xp, l.xs)
    IN  unbalanced_add(mul_rec(l.st, c.wp, c.xp, c.xs, c.yp, c.ys, scratch),
                       l.wp, w_tmp, ys, l.xs)

\* mul_unbalanced from the allocation of w_tmp on: s is the state after the
\* first mul_toom22, wp, xp, xs are already advanced by ys; tmp is dropped
\* at the end
unbalanced_blocks(s, wp, xp, xs, yp, ys, scratch) ==
    IF ~s.ok THEN s
    ELSE LET s2 == allocate(s, ys * 3)
             w_tmp == Allocated(s2)
         IN  release(unbalanced_tail(unbalanced_loop(s2, wp, xp, xs, yp, ys,
                                                     scratch, w_tmp),
                                     yp, ys, scratch, w_tmp),
                     Len(s.mem))

mul_unbalanced(s, wp, xp, xs, yp, ys, scratch) ==
    IF ~s.ok THEN s
    ELSE IF ~(xs > ys) THEN Fault(s)
    ELSE unbalanced_blocks(mul_toom22(s, wp, xp, ys, yp, ys, scratch),
                           offset(wp, ys), offset(xp, ys), xs - ys,
                           yp, ys, scratch)

\* ll::mul
mul(s, wp, xp, xs, yp, ys) ==
    IF ~(xs >= ys /\ ys > 0 /\ wp.r # xp.r /\ wp.r # yp.r) THEN Fault(s)
    ELSE IF mul_select(s.T, xs, ys) = "mul_basecase"
    THEN mul_basecase(s, wp, xp, xs, yp, ys)
    ELSE LET s1 == allocate(s, xs * 2)
             scratch == Allocated(s1)
         IN  release(multiply_by(mul_select(s.T, xs, ys), s1, wp, xp, xs, yp, ys,
                                 scratch),
                     Len(s.mem))

----------------------------------------------------------------------------
(* Squaring *)

RECURSIVE sqr_toom2(_, _, _, _, _)

sqr_rec(s, wp, xp, xs, scratch) ==
    IF ~s.ok THEN s
    ELSE IF xs < s.T THEN mul_basecase(s, wp, xp, xs, xp, xs)
    ELSE sqr_toom2(s, wp, xp, xs, scratch)

\* the sqr_rec calls of sqr_toom2, made in their order on the same scratch
RECURSIVE sqr_rec_each(_, _, _)
sqr_rec_each(s, calls, scratch) ==
    IF calls = <<>> \/ ~s.ok THEN s
    ELSE LET c == Head(calls)
         IN  sqr_rec_each(sqr_rec(s, c.wp, c.xp, c.xs, scratch),
                          Tail(calls), scratch)

\* the accumulation of sqr_toom2 once z0, z1, z2 are in place
sqr_toom2_accumulate(s, wp, z1, xl, xs) ==
    IF ~s.ok THEN s ELSE
    LET a1 == add_n(s, z1, z1, z1, xs)
        a2 == add_n(a1.st, offset(wp, xl), offset(wp, xl), z1, xs)
    IN  incr(a2.st, offset(wp, xl + xs), limb_add(a1.r, a2.r))

sqr_toom2(s, wp, xp, xs, scratch) ==
    IF ~s.ok THEN s ELSE
    LET xh == xs \div 2
        xl == xs - xh
        x0 == xp
        x1 == offset(xp, xl)
        z0 == wp
        z1 == scratch
        z2 == offset(wp, xl * 2)
        scratch_out == offset(scratch, xl * 2)
    IN  sqr_toom2_accumulate(
            sqr_rec_each(mul_rec(s, z1, x0, xl, x1, xh, scratch_out),
                         <<Product_of(z0, x0, xl, x0, xl),
                           Product_of(z2, x1, xh, x1, xh)>>, scratch_out),
            wp, z1, xl, xs)

\* ll::sqr
sqr(s, wp, xp, xs) ==
    IF ~(xs > 0 /\ wp.r # xp.r) THEN Fault(s)
    ELSE IF xs <= s.T THEN mul_basecase(s, wp, xp, xs, xp, xs)
    ELSE LET s1 == allocate(s, xs * 2)
         IN  release(sqr_toom2(s1, wp, xp, xs, Allocated(s1)), Len(s.mem))

----------------------------------------------------------------------------
(* The kernels as operations: a caller hands in X, a limb and an output   *)
(* buffer W of the same length                                             *)

NoFrame == [fn |-> "none"]

KernelInit ==
    /\ pc = "ready"
    /\ op = "none"
    /\ \E n \in 1..MaxKernelLen :
          /\ X \in SeqsOf(EdgeLimbs, n)
          /\ W \in SeqsOf(EdgeLimbs, n)
    /\ Y = <<>>
    /\ vl \in EdgeLimbs
    /\ st = Machine(X, Y, W, TOOM22_THRESHOLD, 0)
    /\ ret = 0
    /\ frame = NoFrame

Returned(name, res) ==
    /\ pc' = "done"
    /\ op' = name
    /\ st' = res.st
    /\ ret' = res.r
    /\ UNCHANGED <<X, Y, vl, W, frame>>

CallMul1 ==
    /\ pc = "ready"
    /\ Returned("mul_1", mul_1(st, Ptr(WRegion, 0), Ptr(XRegion, 0), Len(X), vl))

CallAddmul1 ==
    /\ pc = "ready"
    /\ Returned("addmul_1", addmul_1(st, Ptr(WRegion, 0), Ptr(XRegion, 0), Len(X), vl))

CallSubmul1 ==
    /\ pc = "ready"
    /\ Returned("submul_1", submul_1(st, Ptr(WRegion, 0), Ptr(XRegion, 0), Len(X), vl))

KernelNext ==
    \/ CallMul1
    \/ CallAddmul1
    \/ CallSubmul1

SpecKernel == KernelInit /\ [][KernelNext]_vars

\* the output buffer after the call
Wout == st.mem[WRegion]

----------------------------------------------------------------------------
(* Claims about the kernels *)

\* C2: after mul_1 on X (n limbs) and v, the n output limbs and the returned
\* limb satisfy value({wp,n}) + carry * B^n = value(X) * v.
C2_Mul1Law ==
    (pc = "done" /\ op = "mul_1") =>
        /\ st.ok
        /\ Len(Wout) = Len(X)
        /\ ret \in Limb
        /\ value(Wout) + ret * B^Len(X) = value(X) * vl

\* a mul_1 call whose product needs the returned limb and a carry between limbs
C2_Witness ==
    /\ pc = "done" /\ op = "mul_1"
    /\ Len(X) = 2 /\ ret > 0
    /\ X[1] * vl >= B

\* C3: addmul_1 adds value(X) * v to the n limbs W of the output buffer:
\* value(W') + c * B^n = value(W) + value(X) * v for the returned limb c.
C3_Addmul1Law ==
    (pc = "done" /\ op = "addmul_1") =>
        /\ st.ok
        /\ Len(Wout) = Len(X)
        /\ ret \in Limb
        /\ value(Wout) + ret * B^Len(X) = value(W) + value(X) * vl

\* an addmul_1 call on a non-zero buffer that returns a non-zero limb
C3_Witness ==
    /\ pc = "done" /\ op = "addmul_1"
    /\ Len(X) = 2 /\ ret > 0 /\ value(W) > 0
    /\ Wout # W

\* C4: submul_1 subtracts value(X) * v from the n limbs W of the output
\* buffer: value(W') - c * B^n = value(W) - value(X) * v for the returned
\* limb c.
C4_Submul1Law ==
    (pc = "done" /\ op = "submul_1") =>
        /\ st.ok
        /\ Len(Wout) = Len(X)
        /\ ret \in Limb
        /\ value(Wout) - ret * B^Len(X) = value(W) - value(X) * vl

\* a submul_1 call that borrows: the product exceeds the buffer's value
C4_Witness ==
    /\ pc = "done" /\ op = "submul_1"
    /\ Len(X) = 2 /\ ret > 0
    /\ value(W) < value(X) * vl
    /\ value(W) > 0

----------------------------------------------------------------------------
(* mul_1 with an output that aliases the input: X is one buffer that holds  *)
(* the input {xp,n} at its start and the output {wp,n} d limbs higher, W is *)
(* a separate output buffer of n limbs                                      *)

\* longest operand handed to mul_1 with an aliased output
MaxAliasLen == 3

AliasInit ==
    /\ pc = "ready"
    /\ op = "none"
    /\ \E n \in 1..MaxAliasLen :
          \E d \in 0..(n - 1) :
             /\ X \in SeqsOf(EdgeLimbs, n + d)
             /\ W = [i \in 1..n |-> 0]
    /\ Y = <<>>
    /\ vl \in EdgeLimbs
    /\ st = Machine(X, Y, W, TOOM22_THRESHOLD, 0)
    /\ ret = 0
    /\ frame = NoFrame

\* the number of limbs multiplied, and the distance of the output above the
\* input
AliasLen == Len(W)

AliasShift == Len(X) - Len(W)

\* mul_1(xp, xp, n, vl)
CallMul1InPlace ==
    /\ pc = "ready"
    /\ AliasShift = 0
    /\ Returned("mul_1_in_place",
                mul_1(st, Ptr(XRegion, 0), Ptr(XRegion, 0), AliasLen, vl))

\* mul_1(xp + d, xp, n, vl) with 0 < d < n
CallMul1Above ==
    /\ pc = "ready"
    /\ AliasShift > 0
    /\ Returned("mul_1_above",
                mul_1(st, Ptr(XRegion, AliasShift), Ptr(XRegion, 0), AliasLen, vl))

\* mul_1(wp, xp, n, vl) with the separate output buffer
CallMul1Apart ==
    /\ pc = "ready"
    /\ Returned("mul_1_apart",
                mul_1(st, Ptr(WRegion, 0), Ptr(XRegion, 0), AliasLen, vl))

AliasNext ==
    \/ CallMul1InPlace
    \/ CallMul1Above
    \/ CallMul1Apart

SpecAlias == AliasInit /\ [][AliasNext]_vars

\* what mul_1 gives on the original input with the separate output buffer
Mul1Apart ==
    mul_1(Machine(X, Y, W, TOOM22_THRESHOLD, 0), Ptr(WRegion, 0), Ptr(XRegion, 0),
          AliasLen, vl)

\* the n limbs of the aliased output after the call
AliasOut ==
    SubSeq(st.mem[XRegion], AliasShift + 1, AliasShift + AliasLen)

----------------------------------------------------------------------------
(* Claims about mul_1 with an aliased output *)

\* C11: mul_1 in place (wp == xp) writes the same n limbs and returns the
\* same limb as mul_1 on the same input with a disjoint output buffer.
C11_InPlaceSame ==
    (pc = "done" /\ op = "mul_1_in_place") =>
        /\ st.ok
        /\ Mul1Apart.st.ok
        /\ AliasOut = Mul1Apart.st.mem[WRegion]
        /\ ret = Mul1Apart.r

\* an in-place call that changed the buffer, carried between limbs and
\* returned a non-zero limb
C11_Witness ==
    /\ pc = "done" /\ op = "mul_1_in_place"
    /\ Len(X) >= 2 /\ ret > 0
    /\ X[1] * vl >= B
    /\ st.mem[XRegion] # X

\* C12: mul_1 with the output d limbs above the input (wp = xp + d,
\* 0 < d < n) writes the same n limbs and returns the same limb as mul_1 on
\* the original input with a disjoint output buffer.
C12_AboveSame ==
    (pc = "done" /\ op = "mul_1_above") =>
        /\ st.ok
        /\ AliasOut = Mul1Apart.st.mem[WRegion]
        /\ ret = Mul1Apart.r

----------------------------------------------------------------------------
(* mul_basecase as an operation (it is public, and called with xs < ys too) *)

\* an output buffer of n limbs, every limb g
Filled(n, g) ==
    [i \in 1..n |-> g]

BaseInit ==
    /\ pc = "ready"
    /\ op = "none"
    /\ \E xs \in 1..MaxBaseLen, ys \in 1..MaxBaseLen :
          /\ X \in SeqsOf({0, 1, B - 1}, xs)
          /\ Y \in SeqsOf({0, 1, B - 1}, ys)
          /\ \E g \in {0, B - 1} : W = Filled(xs + ys, g)
    /\ vl = 0
    /\ st = Machine(X, Y, W, TOOM22_THRESHOLD, 0)
    /\ ret = 0
    /\ frame = NoFrame

CallMulBasecase ==
    /\ pc = "ready"
    /\ Returned("mul_basecase",
                [st |-> mul_basecase(st, Ptr(WRegion, 0), Ptr(XRegion, 0), Len(X),
                                     Ptr(YRegion, 0), Len(Y)),
                 r |-> 0])

BaseNext ==
    CallMulBasecase

SpecBase == BaseInit /\ [][BaseNext]_vars


----------------------------------------------------------------------------
(* Claim about mul_basecase *)

\* C7: for any xs >= 1 and ys >= 1 (xs < ys included) mul_basecase leaves in
\* {wp, xs+ys} exactly the limbs of value(X) * value(Y), whatever the buffer
\* held before: one mul_1 row and ys - 1 addmul_1 rows, each storing its
\* returned limb at wp[xs + j].
C7_BasecaseExact ==
    (pc = "done" /\ op = "mul_basecase") =>
        /\ st.ok
        /\ Len(Wout) = Len(X) + Len(Y)
        /\ value(Wout) = value(X) * value(Y)
        /\ Wout = Product(X, Y)

\* a base-case call with xs < ys on a dirty buffer whose product fills the
\* top limb
C7_Witness ==
    /\ pc = "done" /\ op = "mul_basecase"
    /\ Len(X) < Len(Y) /\ Len(Y) = 3
    /\ W[1] = B - 1
    /\ Wout[Len(Wout)] > 0
    /\ Wout = Product(X, Y)

----------------------------------------------------------------------------
(* mul and sqr as operations, at the threshold of the program *)

\* the low half of the deepest Toom-22 split a ys-limb operand goes through
LowSplit(ys) ==
    IF Nl(ys) >= TOOM22_THRESHOLD THEN Nl(Nl(ys)) ELSE Nl(ys)

\* an operand of n limbs: k low limbs a, the limb c above them, then m zero
\* limbs, the rest b
Operand(n, k, m, a, c, b) ==
    [i \in 1..n |-> IF i <= k THEN a
                    ELSE IF i = k + 1 THEN c
                    ELSE IF i <= k + 1 + m THEN 0
                    ELSE b]

\* the sizes (xs, ys): the last base-case size, the first Toom-22 sizes, the
\* first nested Toom-22 size, the unbalanced sizes without and with a block
\* loop
MulSizes ==
    LET t == TOOM22_THRESHOLD
    IN  {<<t, t>>, <<t + 1, t + 1>>, <<t + 2, t + 1>>, <<2 * t - 1, 2 * t - 1>>,
         <<(3 * (t + 1) + 1) \div 2, t + 1>>, <<3 * (t + 1), t + 1>>}

MulInit ==
    /\ pc = "ready"
    /\ op = "none"
    /\ \E sz \in MulSizes, b \in {0, B - 1} :
          \E m \in {0, LowSplit(sz[2])} :
             /\ \E a \in {1, B - 1}, c \in {0, B - 1} :
                   X = Operand(sz[1], LowSplit(sz[2]) - 1, m, a, c, b)
             /\ \E a \in {1, B - 1}, c \in {0, B - 2} :
                   Y = Operand(sz[2], LowSplit(sz[2]) - 1, m, a, c, b)
             /\ \E g \in {0, B - 1} :
                   /\ W = Filled(sz[1] + sz[2], g)
                   /\ st = Machine(X, Y, W, TOOM22_THRESHOLD, g)
    /\ vl = 0
    /\ ret = 0
    /\ frame = NoFrame

CallMul ==
    /\ pc = "ready"
    /\ Returned("mul",
                [st |-> mul(st, Ptr(WRegion, 0), Ptr(XRegion, 0), Len(X),
                            Ptr(YRegion, 0), Len(Y)),
                 r |-> 0])

\* sqr on X, the caller's buffer being the 2 * xs limbs sqr writes
CallSqr ==
    /\ pc = "ready"
    /\ Len(W) = 2 * Len(X)
    /\ Returned("sqr",
                [st |-> sqr(st, Ptr(WRegion, 0), Ptr(XRegion, 0), Len(X)),
                 r |-> 0])

MulNext ==
    \/ CallMul
    \/ CallSqr

SpecMul == MulInit /\ [][MulNext]_vars

\* the output mul leaves for X * X from the state the call of sqr started in
MulOfSquare ==
    mul(Machine(X, Y, W, st.T, st.fill), Ptr(WRegion, 0), Ptr(XRegion, 0), Len(X),
        Ptr(XRegion, 0), Len(X))

----------------------------------------------------------------------------
(* Claims about mul and sqr *)

\* C1: after mul on X, Y with xs >= ys >= 1 the call has completed and the
\* xs + ys limbs of the output buffer are exactly the limbs of
\* value(X) * value(Y), on every dispatch path and whatever the output buffer
\* and the scratch held before.
C1_MulExact ==
    (pc = "done" /\ op = "mul") =>
        /\ st.ok
        /\ Len(Wout) = Len(X) + Len(Y)
        /\ Wout = Product(X, Y)

\* C5: sqr on X leaves in {wp, 2*xs} the same limbs as mul on X, X does, and
\* both are the limbs of value(X)^2.
C5_SqrIsMul ==
    (pc = "done" /\ op = "sqr") =>
        /\ st.ok
        /\ MulOfSquare.ok
        /\ Wout = MulOfSquare.mem[WRegion]
        /\ Wout = Product(X, X)

\* C10: in every run of mul no allocation happens once a limb of the output
\* buffer has been written.
C10_AllocateBeforeWrite ==
    (pc = "done" /\ op = "mul") => ~st.late

\* C18: in every run of mul the deferred carry cy that mul_toom22 applies at
\* wp + 3 * nl is never negative: it is always one of 0, 1, 2.
C18_CarryNeverNegative ==
    (pc = "done" /\ op = "mul") =>
        /\ st.cylo >= 0
        /\ st.cyhi <= 2

----------------------------------------------------------------------------
(* The first part of mul_toom22, the absolute differences and their sign,   *)
(* on short operands                                                        *)

\* longest operand whose differences are computed
MaxToomLen == 4

\* the sizes mul_toom22 accepts
ToomSizes ==
    {sz \in (1..MaxToomLen) \X (1..MaxToomLen) : toom22_asserts(sz[1], sz[2])}

ToomInit ==
    /\ pc = "ready"
    /\ op = "none"
    /\ \E sz \in ToomSizes :
          /\ X \in SeqsOf({0, 1, B - 1}, sz[1])
          /\ Y \in SeqsOf({0, 1, B - 1}, sz[2])
          /\ W = Filled(sz[1] + sz[2], B - 1)
    /\ vl = 0
    /\ ret = 0
    /\ st = Machine(X, Y, W, TOOM22_THRESHOLD, B - 1)
    /\ frame = NoFrame

\* mul_toom22 run up to "Calculate z1"
ToomDifferences ==
    /\ pc = "ready"
    /\ LET d == toom22_differences(st, Ptr(WRegion, 0), Ptr(XRegion, 0), Len(X),
                                   Ptr(YRegion, 0), Len(Y))
       IN  /\ st' = d.st
           /\ frame' = [fn |-> "mul_toom22", z1_neg |-> d.neg]
    /\ pc' = "done"
    /\ op' = "differences"
    /\ UNCHANGED <<X, Y, vl, W, ret>>

ToomNext ==
    ToomDifferences

SpecToom == ToomInit /\ [][ToomNext]_vars

\* x0 - x1 and y0 - y1 as integers, x0 and y0 the nl low limbs
DiffX ==
    value(SubSeq(X, 1, Nl(Len(X)))) - value(SubSeq(X, Nl(Len(X)) + 1, Len(X)))

DiffY ==
    value(SubSeq(Y, 1, Nl(Len(X)))) - value(SubSeq(Y, Nl(Len(X)) + 1, Len(Y)))

\* the values of {wp, nl} and {wp + nl, nl}
Zx1 ==
    value(SubSeq(Wout, 1, Nl(Len(X))))

Zy1 ==
    value(SubSeq(Wout, Nl(Len(X)) + 1, Nl(Len(X)) * 2))

\* C16: before the three products {wp, nl} holds |x0 - x1| and {wp + nl, nl}
\* holds |y0 - y1| as nl-limb values, z1_neg is (x0 < x1) XOR (y0 < y1), and
\* (x0 - x1) * (y0 - y1) is -z1 when z1_neg and z1 otherwise, z1 the product
\* of the two stored values.
C16_Differences ==
    (pc = "done" /\ op = "differences") =>
        /\ st.ok
        /\ Zx1 = (IF DiffX < 0 THEN -DiffX ELSE DiffX)
        /\ Zy1 = (IF DiffY < 0 THEN -DiffY ELSE DiffY)
        /\ frame.z1_neg = ((DiffX < 0) # (DiffY < 0))
        /\ DiffX * DiffY = (IF frame.z1_neg THEN -(Zx1 * Zy1) ELSE Zx1 * Zy1)

\* an odd split (nl > xh) with x0 < x1 and y0 > y1: the limb of zx1 above xh
\* is zeroed and z1_neg is set
C16_Witness ==
    /\ pc = "done" /\ op = "differences"
    /\ Nl(Len(X)) > Xh(Len(X))
    /\ DiffX < 0 /\ DiffY > 0
    /\ frame.z1_neg
    /\ Wout[Nl(Len(X))] = 0

----------------------------------------------------------------------------
(* mul under a substituted threshold, on short operands *)

\* largest threshold substituted for TOOM22_THRESHOLD
MaxThreshold == 3
\* longest operand multiplied under a substituted threshold
MaxThresholdLen == 4

ThresholdInit ==
    /\ pc = "ready"
    /\ op = "none"
    /\ \E xs \in 1..MaxThresholdLen :
          \E ys \in 1..xs :
             /\ X \in SeqsOf({1, B - 1}, xs)
             /\ Y \in SeqsOf({1, B - 1}, ys)
             /\ \E g \in {0, B - 1}, t \in 1..MaxThreshold :
                   /\ W = Filled(xs + ys, g)
                   /\ st = Machine(X, Y, W, t, g)
    /\ vl = 0
    /\ ret = 0
    /\ frame = NoFrame

ThresholdNext ==
    \/ CallMul
    \/ CallMulBasecase

SpecThreshold == ThresholdInit /\ [][ThresholdNext]_vars

\* the output of the pure base-case multiplier from the state the call
\* started in
BasecaseOfCall ==
    mul_basecase(Machine(X, Y, W, st.T, st.fill), Ptr(WRegion, 0),
                 Ptr(XRegion, 0), Len(X), Ptr(YRegion, 0), Len(Y))

\* C6: under every threshold T >= 1 put in the place of TOOM22_THRESHOLD, mul
\* completes and leaves exactly the xs + ys limbs the pure base-case
\* multiplier leaves.
C6_ThresholdInvariance ==
    (pc = "done" /\ op = "mul") =>
        /\ st.ok
        /\ Wout = BasecaseOfCall.mem[WRegion]

----------------------------------------------------------------------------
(* The descent of the calls through the scratch arena: which function is   *)
(* entered with which sizes, at which offset of the scratch region         *)

\* the sizes (T - 1) * 2^k + 1, whose low halves stay odd down to T
MaxDoublings == 11
\* longest operand of the other descents
MaxDescentLen == 64

ChainSize(k) ==
    (TOOM22_THRESHOLD - 1) * 2^k + 1

DescentSizes ==
    {<<ChainSize(k), ChainSize(k)>> : k \in 0..MaxDoublings}
    \cup {sz \in (1..MaxDescentLen) \X (1..MaxDescentLen) : sz[1] >= sz[2]}

\* a call: the function entered, its sizes, the offset of its scratch pointer
\* in the arena and the length of the arena
Call(fn, xs, ys, off, cap) ==
    [fn |-> fn, xs |-> xs, ys |-> ys, off |-> off, cap |-> cap]

DescentInit ==
    /\ pc = "descent"
    /\ op = "none"
    /\ X = <<>> /\ Y = <<>> /\ W = <<>>
    /\ vl = 0
    /\ ret = 0
    /\ st = Machine(X, Y, W, TOOM22_THRESHOLD, 0)
    /\ \E sz \in DescentSizes :
          \/ frame = Call("mul", sz[1], sz[2], 0, 0)
          \/ sz[1] = sz[2] /\ frame = Call("sqr", sz[1], sz[2], 0, 0)

Enter(call) ==
    /\ frame' = call
    /\ UNCHANGED <<pc, op, X, Y, vl, W, st, ret>>

\* mul: the base case, or the allocation of xs * 2 limbs and the unbalanced
\* or Toom-22 multiplier on it
EnterMul ==
    /\ frame.fn = "mul"
    /\ IF mul_select(st.T, frame.xs, frame.ys) = "mul_basecase"
       THEN Enter(Call("mul_basecase", frame.xs, frame.ys, 0, 0))
       ELSE Enter(Call(mul_select(st.T, frame.xs, frame.ys), frame.xs, frame.ys,
                       0, frame.xs * 2))

\* mul_rec: the choice between the three multipliers, on the scratch it got
EnterMulRec ==
    /\ frame.fn = "mul_rec"
    /\ Enter([frame EXCEPT !.fn = mul_rec_select(st.T, frame.xs, frame.ys)])

\* mul_toom22: one of its three mul_rec calls, z1 = zx1 * zy1, z0 = x0 * y0,
\* z2 = x1 * y1, each on scratch + 2 * nl
DescendToom22 ==
    /\ frame.fn = "mul_toom22"
    /\ IF ~toom22_asserts(frame.xs, frame.ys)
       THEN Enter([frame EXCEPT !.fn = "panic"])
       ELSE LET xh == Xh(frame.xs)
                nl == Nl(frame.xs)
                yh == Yh(frame.xs, frame.ys)
            IN  \E sz \in {<<nl, nl>>, <<xh, yh>>} :
                   Enter(Call("mul_rec", sz[1], sz[2], frame.off + nl * 2, frame.cap))

\* the xs left when the while loop of mul_unbalanced ends
RECURSIVE unbalanced_rest(_, _)
unbalanced_rest(xs, ys) ==
    IF xs >= ys * 2 THEN unbalanced_rest(xs - ys, ys) ELSE xs

\* mul_unbalanced: its first mul_toom22, a mul_toom22 of the loop, or the
\* mul_rec of the last block, all on the same scratch
DescendUnbalanced ==
    /\ frame.fn = "mul_unbalanced"
    /\ IF ~(frame.xs > frame.ys)
       THEN Enter([frame EXCEPT !.fn = "panic"])
       ELSE LET ys == frame.ys
                rest == unbalanced_rest(frame.xs - ys, ys)
            IN  \/ Enter(Call("mul_toom22", ys, ys, frame.off, frame.cap))
                \/ /\ frame.xs - ys >= ys * 2
                   /\ Enter(Call("mul_toom22", ys, ys, frame.off, frame.cap))
                \/ IF rest >= ys
                   THEN Enter(Call("mul_rec", rest, ys, frame.off, frame.cap))
                   ELSE Enter(Call("mul_rec", ys, rest, frame.off, frame.cap))

\* sqr: the base case, or the allocation of xs * 2 limbs and sqr_toom2
EnterSqr ==
    /\ frame.fn = "sqr"
    /\ IF frame.xs <= st.T
       THEN Enter(Call("mul_basecase", frame.xs, frame.xs, 0, 0))
       ELSE Enter(Call("sqr_toom2", frame.xs, frame.xs, 0, frame.xs * 2))

\* sqr_rec
EnterSqrRec ==
    /\ frame.fn = "sqr_rec"
    /\ IF frame.xs < st.T
       THEN Enter([frame EXCEPT !.fn = "mul_basecase"])
       ELSE Enter([frame EXCEPT !.fn = "sqr_toom2"])

\* sqr_toom2: z1 = x0 * x1 by mul_rec, z0 = x0^2 and z2 = x1^2 by sqr_rec,
\* each on scratch + 2 * xl
DescendSqrToom2 ==
    /\ frame.fn = "sqr_toom2"
    /\ LET xh == frame.xs \div 2
           xl == frame.xs - xh
       IN  \/ Enter(Call("mul_rec", xl, xh, frame.off + xl * 2, frame.cap))
           \/ \E n \in {xl, xh} :
                 Enter(Call("sqr_rec", n, n, frame.off + xl * 2, frame.cap))

DescentNext ==
    \/ EnterMul
    \/ EnterMulRec
    \/ DescendToom22
    \/ DescendUnbalanced
    \/ EnterSqr
    \/ EnterSqrRec
    \/ DescendSqrToom2

SpecDescent == DescentInit /\ [][DescentNext]_vars

\* the end of the scratch limbs a Toom call has written: z1 at its scratch
\* pointer, the 2 * nl limbs of zx1 * zy1 in mul_toom22, the xs limbs of
\* x0 * x1 in sqr_toom2
ScratchEnd ==
    IF frame.fn = "sqr_toom2" THEN frame.off + frame.xs
    ELSE frame.off + Nl(frame.xs) * 2

----------------------------------------------------------------------------
(* Claims about the descent *)

\* C8: the xs * 2 scratch limbs the top-level mul or sqr allocates are
\* enough: every mul_toom22 and sqr_toom2 call of the recursion keeps its
\* 2 * nl limbs of z1 inside the arena.
C8_ScratchSuffices ==
    frame.fn \in {"mul_toom22", "sqr_toom2"} => ScratchEnd <= frame.cap

ScratchWritten ==
    frame.off .. (ScratchEnd - 1)

\* C19: the only limbs a call of mul or sqr writes are those of its output
\* and of its scratch and temporary regions, and no access is at or beyond
\* the end of a buffer: every limb of z1 that a Toom call of the recursion
\* writes is a limb of the arena.
C19_WritesInsideRegions ==
    frame.fn \in {"mul_toom22", "sqr_toom2"} =>
        \A i \in ScratchWritten : 0 <= i /\ i < frame.cap

----------------------------------------------------------------------------
(* The descent with mul_unbalanced taken step by step: its first           *)
(* mul_toom22, the test of its while loop, a block of the loop, the last   *)
(* block                                                                   *)

\* longest operand of the stepwise descents
MaxStepLen == 100

StepSizes ==
    DescentSizes
    \cup {sz \in (1..MaxStepLen) \X (1..MaxStepLen) : sz[1] >= sz[2]}

StepInit ==
    /\ pc = "descent"
    /\ op = "none"
    /\ X = <<>> /\ Y = <<>> /\ W = <<>>
    /\ vl = 0
    /\ ret = 0
    /\ st = Machine(X, Y, W, TOOM22_THRESHOLD, 0)
    /\ \E sz \in StepSizes :
          \/ frame = Call("mul", sz[1], sz[2], 0, 0)
          \/ sz[1] = sz[2] /\ frame = Call("sqr", sz[1], sz[2], 0, 0)

\* the test of the while loop with the xs at hand
unbalanced_continues_single(xs, ys) ==
    xs >= ys

\* while xs >= (ys * 2)
unbalanced_continues(xs, ys) ==
    xs >= ys * 2

\* mul_unbalanced: the assertion, then its first mul_toom22 on wp or, past
\* it, xs -= ys, wp advanced by ys and the allocation of the ys * 3 limbs of
\* w_tmp; wo is the offset of wp in the xs + ys limbs (wn) the caller handed
\* in, tn the length of w_tmp
UnbalancedFirst ==
    /\ frame.fn = "mul_unbalanced"
    /\ IF ~(frame.xs > frame.ys)
       THEN Enter([frame EXCEPT !.fn = "panic"])
       ELSE \/ Enter(Call("mul_toom22", frame.ys, frame.ys, frame.off, frame.cap))
            \/ Enter([fn |-> "unbalanced_while", xs |-> frame.xs - frame.ys,
                      ys |-> frame.ys, off |-> frame.off, cap |-> frame.cap,
                      wo |-> frame.ys, wn |-> frame.xs + frame.ys,
                      tn |-> frame.ys * 3])

\* the test of the while loop
UnbalancedWhile ==
    /\ frame.fn = "unbalanced_while"
    /\ IF unbalanced_continues(frame.xs, frame.ys)
       THEN Enter([frame EXCEPT !.fn = "unbalanced_block"])
       ELSE Enter([frame EXCEPT !.fn = "unbalanced_tail"])

\* a block of the loop: its mul_toom22 into w_tmp or, past it, xs -= ys, the
\* accumulation into {wp, 2 * ys} and wp advanced by ys
UnbalancedBlock ==
    /\ frame.fn = "unbalanced_block"
    /\ \/ Enter(Call("mul_toom22", frame.ys, frame.ys, frame.off, frame.cap))
       \/ Enter([frame EXCEPT !.fn = "unbalanced_while",
                              !.xs = @ - frame.ys,
                              !.wo = @ + frame.ys])

\* the last block: mul_rec into w_tmp with the longer operand first
UnbalancedTail ==
    /\ frame.fn = "unbalanced_tail"
    /\ IF frame.xs >= frame.ys
       THEN Enter(Call("mul_rec", frame.xs, frame.ys, frame.off, frame.cap))
       ELSE Enter(Call("mul_rec", frame.ys, frame.xs, frame.off, frame.cap))

StepNext ==
    \/ EnterMul
    \/ EnterMulRec
    \/ DescendToom22
    \/ UnbalancedFirst
    \/ UnbalancedWhile
    \/ UnbalancedBlock
    \/ UnbalancedTail
    \/ EnterSqr
    \/ EnterSqrRec
    \/ DescendSqrToom2

SpecSteps == StepInit /\ [][StepNext]_vars

\* every call that is entered is eventually made
SpecTermination == SpecSteps /\ WF_vars(StepNext)

\* the sum of the operand sizes never grows along the descent, and shrinks
\* with every mul_rec / sqr_rec call of a Toom step and every block of
\* mul_unbalanced
SizesDecrease ==
    LET before == frame.xs + frame.ys
        after == frame'.xs + frame'.ys
    IN  /\ after <= before
        /\ (frame.fn \in {"mul_toom22", "sqr_toom2"}
               /\ frame'.fn \in {"mul_rec", "sqr_rec"}) => after < before
        /\ (frame.fn \in {"mul_unbalanced", "unbalanced_block"}
               /\ frame'.fn = "unbalanced_while") => after < before

----------------------------------------------------------------------------
(* Claims about the stepwise descent *)

\* C13: every call of mul (xs >= ys >= 1) and of sqr (xs >= 1) terminates:
\* the operand sizes decrease along the recursion and the block loop, and
\* every descent reaches the base case.
C13_Terminates ==
    /\ [][SizesDecrease]_vars
    /\ <>(frame.fn = "mul_basecase")

\* a base case with unequal sizes reached below two Toom steps
C13_Witness ==
    /\ frame.fn = "mul_basecase"
    /\ frame.off >= TOOM22_THRESHOLD * 4
    /\ frame.xs > frame.ys

\* C15: every mul_toom22 call reachable from mul or sqr, at any depth and
\* from the blocks of mul_unbalanced, satisfies mul_toom22's assertions, and
\* every mul_unbalanced call satisfies xs > ys.
C15_AssertionsHold ==
    /\ frame.fn # "panic"
    /\ frame.fn = "mul_toom22" => toom22_asserts(frame.xs, frame.ys)
    /\ frame.fn = "mul_unbalanced" => frame.xs > frame.ys

\* a mul_toom22 call inside the recursion with xs > ys
C15_Witness ==
    /\ frame.fn = "mul_toom22"
    /\ frame.off > 0
    /\ frame.xs > frame.ys
    /\ toom22_asserts(frame.xs, frame.ys)

\* C17: in every mul_unbalanced call the length left at the last block
\* satisfies 1 <= xs < 2 * ys, the last product of xs + ys limbs and every
\* block product of 2 * ys limbs fit the w_tmp of 3 * ys limbs, and the
\* accumulation of a block ({wp, 2 * ys}) and of the last block
\* ({wp, ys + xs}) stays inside the xs + ys limbs of the caller's output.
C17_TailBounds ==
    /\ frame.fn = "unbalanced_tail" =>
          /\ 1 <= frame.xs /\ frame.xs < frame.ys * 2
          /\ frame.xs + frame.ys <= frame.tn
          /\ frame.wo + frame.ys + frame.xs <= frame.wn
    /\ frame.fn = "unbalanced_block" =>
          /\ frame.ys * 2 <= frame.tn
          /\ frame.wo + frame.ys * 2 <= frame.wn

\* the last block after two blocks of the loop, longer than ys
C17_Witness ==
    /\ frame.fn = "unbalanced_tail"
    /\ frame.wo >= frame.ys * 3
    /\ frame.xs > frame.ys
    /\ frame.wo + frame.ys + frame.xs = frame.wn

----------------------------------------------------------------------------
(* The split of mul_toom22 as a function of the sizes                      *)

\* longest operand whose split is computed
MaxSplitLen == 24

SplitInit ==
    /\ pc = "ready"
    /\ op = "none"
    /\ X = <<>> /\ Y = <<>> /\ W = <<>>
    /\ vl = 0
    /\ ret = 0
    /\ st = Machine(X, Y, W, TOOM22_THRESHOLD, 0)
    /\ \E ys \in 1..MaxSplitLen :
          \E xs \in ys..(ys * 2 - 1) :
             frame = Call("mul_toom22", xs, ys, 0, 0)

\* let xh = xs / 2; let nl = xs - xh; let yh = ys - nl
ComputeSplit ==
    /\ pc = "ready"
    /\ pc' = "done"
    /\ op' = "split"
    /\ frame' = [fn |-> "mul_toom22", xs |-> frame.xs, ys |-> frame.ys,
                 xh |-> Xh(frame.xs), nl |-> Nl(frame.xs),
                 yh |-> Yh(frame.xs, frame.ys)]
    /\ UNCHANGED <<X, Y, vl, W, st, ret>>

SplitNext ==
    ComputeSplit

SpecSplit == SplitInit /\ [][SplitNext]_vars

\* the invariants of the split
SplitInvariants ==
    /\ 0 < frame.xh /\ frame.xh <= frame.nl
    /\ 0 < frame.yh /\ frame.yh <= frame.xh

----------------------------------------------------------------------------
(* Claims about the split *)

\* C14: for all sizes with ys <= xs < 2 * ys the split xh = floor(xs / 2),
\* nl = xs - xh, yh = ys - nl satisfies 0 < xh <= nl and 0 < yh <= xh.
C14_SplitInvariants ==
    (pc = "done" /\ op = "split") => SplitInvariants

\* C14 as the code has it: the split satisfies 0 < xh <= nl and 0 < yh <= xh
\* for all sizes with ys <= xs < 2 * ys - 1; at xs = 2 * ys - 1 the low part
\* is as long as y, yh = 0 (and xh = 0 too at xs = ys = 1).
C14_SplitInvariantsBelowLast ==
    (pc = "done" /\ op = "split") =>
        IF frame.xs < frame.ys * 2 - 1
        THEN SplitInvariants
        ELSE frame.yh = 0 /\ frame.nl = frame.ys

\* the split of an odd size with the longest y the invariants allow
C14_Witness ==
    /\ pc = "done" /\ op = "split"
    /\ frame.xs = frame.ys * 2 - 3
    /\ frame.xs > TOOM22_THRESHOLD
    /\ frame.yh = 1 /\ frame.xh + 1 = frame.nl
    /\ SplitInvariants
====
